---- MODULE Spec2Model ----
(***************************************************************************)
(* CareerMate (src/careermate.py): three deterministic tools over the      *)
(* module-level tables JOB_SKILLS, JOB_LISTINGS and COURSES, four agents   *)
(* (one controller with handoffs to three specialists), and main(), which  *)
(* runs each query through Runner.run and classifies the final output.     *)
(*                                                                         *)
(* Python str values that the code lower-cases or searches (role names,    *)
(* locations) are sequences of one-character strings; skills and course    *)
(* titles are only ever compared for equality and are atomic strings.      *)
(* An Optional value is None or Some(v).                                   *)
(***************************************************************************)
EXTENDS Integers, Sequences, FiniteSets, TLC

VARIABLES
    JOB_SKILLS,     \* module global, careermate.py:40
    JOB_LISTINGS,   \* module global, careermate.py:46
    COURSES,        \* module global, careermate.py:52
    user_skills,    \* the caller's list argument (get_missing_skills, find_jobs, recommend_courses)
    target_job,     \* the caller's target_job argument
    location,       \* the caller's Optional[str] location argument
    last,           \* the tool that returned last, or "none"
    ret,            \* its return value
    pc,             \* main(): position of the for loop / Runner.run
    qi,             \* main(): index of the current query
    current_agent,  \* Runner.run: the agent holding the conversation
    turn,           \* Runner.run: model responses consumed for this query
    handoffLog,     \* Runner.run: handoffs taken for this query, <<from, to>>
    toolLog,        \* Runner.run: tools invoked for this query
    unresolved,     \* the backend named a handoff target outside the agent's handoffs
    error,          \* the exception that left Runner.run, or "None"
    output,         \* result.final_output
    producer,       \* the agent that produced output
    printed         \* per finished query: the producing agent and the branch main() took

toolVars    == <<JOB_SKILLS, JOB_LISTINGS, COURSES, user_skills, target_job, location, last, ret>>
sessionVars == <<pc, qi, current_agent, turn, handoffLog, toolLog, unresolved, error,
                 output, producer, printed>>
vars        == <<toolVars, sessionVars>>

-----------------------------------------------------------------------------
(* Python values *)

None    == [isNone |-> TRUE]
Some(v) == [isNone |-> FALSE, val |-> v]

\* bool(x) of an Optional list or str: None and the empty sequence are falsy
Truthy(x) == ~x.isNone /\ Len(x.val) > 0

Range(s) == {s[i] : i \in DOMAIN s}

\* x in list
In(x, list) == \E i \in DOMAIN list : list[i] = x

\* dict.get(key)
DictGet(d, key) == IF key \in DOMAIN d THEN Some(d[key]) ELSE None

UpperCase == <<"A","B","C","D","E","F","G","H","I","J","K","L","M","N","O","P","Q","R","S","T","U","V","W","X","Y","Z">>
LowerCase == <<"a","b","c","d","e","f","g","h","i","j","k","l","m","n","o","p","q","r","s","t","u","v","w","x","y","z">>

\* str.lower() on one ASCII character
LowerChar(c) ==
    IF \E k \in DOMAIN UpperCase : UpperCase[k] = c
    THEN LowerCase[CHOOSE k \in DOMAIN UpperCase : UpperCase[k] = c]
    ELSE c

\* str.lower()
lower(s) == [i \in DOMAIN s |-> LowerChar(s[i])]

\* a in b, for two str
StrIn(a, b) == \E i \in 0..(Len(b) - Len(a)) : SubSeq(b, i + 1, i + Len(a)) = a

\* ', '.join(list)
RECURSIVE Join(_)
Join(list) ==
    IF Len(list) = 0 THEN <<>>
    ELSE IF Len(list) = 1 THEN <<list[1]>>
    ELSE <<list[1], ", ">> \o Join(Tail(list))

-----------------------------------------------------------------------------
(* Dummy data, careermate.py:40-58 *)

JOB_SKILLS_0 ==
    ( <<"d","a","t","a"," ","s","c","i","e","n","t","i","s","t">> :>
          <<"Python", "SQL", "Statistics", "Machine Learning", "Pandas">> )
 @@ ( <<"w","e","b"," ","d","e","v","e","l","o","p","e","r">> :>
          <<"HTML", "CSS", "JavaScript", "React", "Node.js">> )
 @@ ( <<"d","a","t","a"," ","a","n","a","l","y","s","t">> :>
          <<"Excel", "SQL", "Power BI", "Python", "Statistics">> )

JOB_LISTINGS_0 == <<
    [title |-> "Junior Data Scientist", company |-> "TechCorp",
     location |-> <<"R","e","m","o","t","e">>, skills |-> <<"Python", "SQL">>],
    [title |-> "Web Developer", company |-> "WebWorld",
     location |-> <<"N","e","w"," ","Y","o","r","k">>, skills |-> <<"JavaScript", "React">>],
    [title |-> "Data Analyst", company |-> "DataWorks",
     location |-> <<"S","a","n"," ","F","r","a","n","c","i","s","c","o">>,
     skills |-> <<"Excel", "SQL", "Python">>] >>

COURSES_0 ==
    ("SQL" :> <<"SQL for Beginners (Coursera) - https://example.com/sql",
                "Learn SQL (Udemy) - https://example.com/sql2">>)
 @@ ("Statistics" :> <<"Intro to Statistics (Khan Academy) - https://example.com/stat">>)
 @@ ("Pandas" :> <<"Data Analysis with Pandas (YouTube) - https://example.com/pandas">>)
 @@ ("Python" :> <<"Python 101 (Codecademy) - https://example.com/py">>)
 @@ ("React" :> <<"React Crash Course (Ostad) - https://ostad.app/course/react-native-workshop">>)

-----------------------------------------------------------------------------
(* Tools, careermate.py:61-126.  Each operator gives the return value and  *)
(* the values the function leaves in the objects it was handed or can      *)
(* reach: the global table and the caller's list.                          *)

\* line 74: required_skills = JOB_SKILLS.get(target_job.lower())
RequiredSkills_NoLower(skillsMap, job) == DictGet(skillsMap, job)
RequiredSkills(skillsMap, job) == DictGet(skillsMap, lower(job))

\* line 77: [skill for skill in required_skills if skill not in user_skills]
Missing_FirstOnly(required_skills, skills) ==
    SelectSeq(required_skills, LAMBDA skill : Len(skills) = 0 \/ skill # skills[1])
Missing(required_skills, skills) ==
    SelectSeq(required_skills, LAMBDA skill : ~In(skill, skills))

get_missing_skills(skillsMap, skills, job) ==
    LET required_skills == RequiredSkills(skillsMap, job) IN
    IF ~Truthy(required_skills)
    THEN [ret |-> [error |-> <<"No data for job: ", job>>],
          JOB_SKILLS |-> skillsMap, user_skills |-> skills]
    ELSE LET missing == Missing(required_skills.val, skills) IN
         [ret |-> [target_job |-> job,
                   missing_skills |-> missing,
                   explanation |-> <<"To become a ", job, ", you need to learn: ", Join(missing)>>],
          JOB_SKILLS |-> skillsMap, user_skills |-> skills]

\* line 100: all(skill in user_skills for skill in job["skills"])
HasAllSkills_Any(job, skills) == \E i \in DOMAIN job.skills : In(job.skills[i], skills)
HasAllSkills(job, skills) == \A i \in DOMAIN job.skills : In(job.skills[i], skills)

\* line 101: location and location.lower() not in job["location"].lower()
LocationExcludes_NoLower(job, loc) == Truthy(loc) /\ ~StrIn(loc.val, job.location)
LocationExcludes(job, loc) == Truthy(loc) /\ ~StrIn(lower(loc.val), lower(job.location))

\* lines 98-104: the for loop over JOB_LISTINGS, from index i with matches so far
RECURSIVE find_jobs_loop(_, _, _, _, _)
find_jobs_loop(listings, i, matches, skills, loc) ==
    IF i > Len(listings) THEN matches
    ELSE LET job == listings[i] IN
         IF HasAllSkills(job, skills)
         THEN IF LocationExcludes(job, loc)
              THEN find_jobs_loop(listings, i + 1, matches, skills, loc)
              ELSE find_jobs_loop(listings, i + 1, Append(matches, job), skills, loc)
         ELSE find_jobs_loop(listings, i + 1, matches, skills, loc)

find_jobs_Pop(listings, skills, loc) ==
    LET matches == find_jobs_loop(listings, 1, <<>>, skills, loc) IN
    [ret |-> matches,
     JOB_LISTINGS |-> SelectSeq(listings, LAMBDA job : ~In(job, matches)),
     user_skills |-> skills]
find_jobs(listings, skills, loc) ==
    [ret |-> find_jobs_loop(listings, 1, <<>>, skills, loc),
     JOB_LISTINGS |-> listings, user_skills |-> skills]

\* lines 118-126: the for loop over missing_skills, from index i
RECURSIVE recommend_courses_SkipCheck(_, _, _, _)
recommend_courses_SkipCheck(catalog, missing_skills, i, recommendations) ==
    IF i > Len(missing_skills) THEN recommendations
    ELSE LET skill == missing_skills[i]
             courses == DictGet(catalog, skill) IN
         recommend_courses_SkipCheck(catalog, missing_skills, i + 1,
             Append(recommendations,
                    [skill |-> skill, courses |-> IF courses.isNone THEN <<>> ELSE courses.val]))
RECURSIVE recommend_courses_loop(_, _, _, _)
recommend_courses_loop(catalog, missing_skills, i, recommendations) ==
    IF i > Len(missing_skills) THEN recommendations
    ELSE LET skill == missing_skills[i]
             courses == DictGet(catalog, skill) IN
         IF Truthy(courses)
         THEN recommend_courses_loop(catalog, missing_skills, i + 1,
                  Append(recommendations, [skill |-> skill, courses |-> courses.val]))
         ELSE recommend_courses_loop(catalog, missing_skills, i + 1, recommendations)

recommend_courses(catalog, missing_skills) ==
    [ret |-> recommend_courses_loop(catalog, missing_skills, 1, <<>>),
     COURSES |-> catalog, missing_skills |-> missing_skills]

-----------------------------------------------------------------------------
(* Callers of the tools: the argument values the model draws *)

MaxSkillLen == 2

\* every skill the tables name, in a fixed order
KnownSkills == <<"Python", "SQL", "Statistics", "Machine Learning", "Pandas", "HTML", "CSS",
                 "JavaScript", "React", "Node.js", "Excel", "Power BI">>

\* plus a differently-cased one and one no table names
SkillUniverse == Range(KnownSkills) \cup {"python", "Docker"}

\* each set of known skills as a list, and every short list (any order, repeats)
SkillLists ==
    {SelectSeq(KnownSkills, LAMBDA s : s \in S) : S \in SUBSET Range(KnownSkills)}
    \cup UNION {[1..n -> SkillUniverse] : n \in 0..MaxSkillLen}

TargetJobs == {
    <<"d","a","t","a"," ","s","c","i","e","n","t","i","s","t">>,
    <<"D","a","t","a"," ","S","c","i","e","n","t","i","s","t">>,
    <<"W","E","B"," ","D","E","V","E","L","O","P","E","R">>,
    <<"D","a","t","a"," ","A","n","a","l","y","s","t">>,
    <<"d","a","t","a"," ","a","n","a","l","y","s","t"," ">>,
    <<"p","l","u","m","b","e","r">>,
    <<>> }

Locations == {
    None,
    Some(<<>>),
    Some(<<"R","e","m","o","t","e">>),
    Some(<<"r","e","m","o","t","e">>),
    Some(<<"Y","O","R","K">>),
    Some(<<"s","a","n"," ","f">>),
    Some(<<"o">>),
    Some(<<"N">>),
    Some(<<"P","a","r","i","s">>),
    Some(<<"R","e","m","o","t","e","!">>) }

\* a call's (target_job, location): one of them varies, the other is left at a default
ArgPairs ==
    {<<j, None>> : j \in TargetJobs}
    \cup {<<<<"p","l","u","m","b","e","r">>, l>> : l \in Locations}

queries == <<"I want to become a data scientist",
             "I know Python and SQL. Can you find me a job?",
             "How can I learn React and Pandas?">>

-----------------------------------------------------------------------------
(* State after import: the tables as written, no call made, main() not started *)

NoOutput == [cls |-> "NoneType"]

SessionInit ==
    /\ pc = "idle"
    /\ qi = 1
    /\ current_agent = "none"
    /\ turn = 0
    /\ handoffLog = <<>>
    /\ toolLog = <<>>
    /\ unresolved = FALSE
    /\ error = "None"
    /\ output = NoOutput
    /\ producer = "none"
    /\ printed = <<>>

TablesInit ==
    /\ JOB_SKILLS = JOB_SKILLS_0
    /\ JOB_LISTINGS = JOB_LISTINGS_0
    /\ COURSES = COURSES_0
    /\ last = "none"
    /\ ret = None

\* a caller about to use the tools with some arguments
Init ==
    /\ TablesInit
    /\ user_skills \in SkillLists
    /\ \E a \in ArgPairs : target_job = a[1] /\ location = a[2]
    /\ SessionInit

CallGetMissingSkills ==
    LET r == get_missing_skills(JOB_SKILLS, user_skills, target_job) IN
    /\ last' = "get_missing_skills"
    /\ ret' = r.ret
    /\ JOB_SKILLS' = r.JOB_SKILLS
    /\ user_skills' = r.user_skills
    /\ UNCHANGED <<JOB_LISTINGS, COURSES, target_job, location, sessionVars>>

CallFindJobs ==
    LET r == find_jobs(JOB_LISTINGS, user_skills, location) IN
    /\ last' = "find_jobs"
    /\ ret' = r.ret
    /\ JOB_LISTINGS' = r.JOB_LISTINGS
    /\ user_skills' = r.user_skills
    /\ UNCHANGED <<JOB_SKILLS, COURSES, target_job, location, sessionVars>>

CallRecommendCourses ==
    LET r == recommend_courses(COURSES, user_skills) IN
    /\ last' = "recommend_courses"
    /\ ret' = r.ret
    /\ COURSES' = r.COURSES
    /\ user_skills' = r.missing_skills
    /\ UNCHANGED <<JOB_SKILLS, JOB_LISTINGS, target_job, location, sessionVars>>

Next ==
    \/ CallGetMissingSkills
    \/ CallFindJobs
    \/ CallRecommendCourses

Spec == Init /\ [][Next]_vars

-----------------------------------------------------------------------------
(* Agents, careermate.py:130-178 *)

Controller  == "CareerMate"
Specialists == {"Skill Gap Specialist", "Job Finder Specialist", "Course Recommender Specialist"}
Agents      == {Controller} \cup Specialists

\* Agent(tools=...)
AgentTools(agent) ==
    CASE agent = "Skill Gap Specialist"          -> {"get_missing_skills"}
      [] agent = "Job Finder Specialist"         -> {"find_jobs"}
      [] agent = "Course Recommender Specialist" -> {"recommend_courses"}
      [] OTHER                                   -> {}

\* Agent(handoffs=...): only the controller is given any
AgentHandoffs_Chained(agent) ==
    CASE agent = Controller             -> Specialists
      [] agent = "Skill Gap Specialist" -> {"Course Recommender Specialist"}
      [] OTHER                          -> {}
AgentHandoffs(agent) ==
    IF agent = Controller THEN Specialists ELSE {}

\* Agent(output_type=...): the controller has none, so its output is plain text
AgentOutputType(agent) ==
    CASE agent = "Skill Gap Specialist"          -> "SkillGap"
      [] agent = "Job Finder Specialist"         -> "List[JobListing]"
      [] agent = "Course Recommender Specialist" -> "List[CourseRecommendation]"
      [] OTHER                                   -> "str"

MaxItems  == 2
max_turns == 3

\* the values of an output type: an instance's class, and for a list its elements' classes
OutputsOf(type) ==
    CASE type = "SkillGap" -> {[cls |-> "SkillGap"]}
      [] type = "List[JobListing]" ->
            {[cls |-> "list", items |-> [i \in 1..n |-> "JobListing"]] : n \in 0..MaxItems}
      [] type = "List[CourseRecommendation]" ->
            {[cls |-> "list", items |-> [i \in 1..n |-> "CourseRecommendation"]] : n \in 0..MaxItems}
      [] OTHER -> {[cls |-> "str"]}

\* names a model response may give as a handoff target
NamedTargets == Agents \cup {"Resume Writer Specialist"}

-----------------------------------------------------------------------------
(* main(), careermate.py:181-220, and the run of one query (line 192).     *)
(* Runner.run loops over model responses: a response is a handoff, a tool  *)
(* call or the final output of the current agent; a name the agent does    *)
(* not have, an output that fails output_type, an unreachable backend and  *)
(* running out of turns leave Runner.run as exceptions.                    *)

\* lines 198-220: the isinstance chain
Branch(o) ==
    IF o.cls = "SkillGap" THEN "SKILL GAP ANALYSIS"
    ELSE IF o.cls = "list" /\ \A i \in DOMAIN o.items : o.items[i] = "JobListing"
         THEN "JOB LISTINGS"
    ELSE IF o.cls = "list" /\ \A i \in DOMAIN o.items : o.items[i] = "CourseRecommendation"
         THEN "COURSE RECOMMENDATIONS"
    ELSE "print(output)"

\* line 188, 192: the next query enters Runner.run with the controller
StartQuery ==
    /\ pc = "idle"
    /\ qi <= Len(queries)
    /\ pc' = "run"
    /\ current_agent' = Controller
    /\ turn' = 0
    /\ handoffLog' = <<>>
    /\ toolLog' = <<>>
    /\ unresolved' = FALSE
    /\ output' = NoOutput
    /\ producer' = "none"
    /\ UNCHANGED <<qi, error, printed, toolVars>>

ModelHandoff ==
    /\ pc = "run"
    /\ turn < max_turns
    /\ \E target \in AgentHandoffs(current_agent) :
          /\ current_agent' = target
          /\ handoffLog' = Append(handoffLog, <<current_agent, target>>)
    /\ turn' = turn + 1
    /\ UNCHANGED <<pc, qi, toolLog, unresolved, error, output, producer, printed, toolVars>>

\* the response names a target the current agent has no handoff to
ModelUnknownHandoff ==
    /\ pc = "run"
    /\ turn < max_turns
    /\ \E target \in NamedTargets \ AgentHandoffs(current_agent) : TRUE
    /\ unresolved' = TRUE
    /\ error' = "ModelBehaviorError"
    /\ pc' = "raised"
    /\ turn' = turn + 1
    /\ UNCHANGED <<qi, current_agent, handoffLog, toolLog, output, producer, printed, toolVars>>

ModelToolCall ==
    /\ pc = "run"
    /\ turn < max_turns
    /\ \E tool \in AgentTools(current_agent) : toolLog' = Append(toolLog, tool)
    /\ turn' = turn + 1
    /\ UNCHANGED <<pc, qi, current_agent, handoffLog, unresolved, error, output, producer,
                   printed, toolVars>>

\* arguments that fail the tool's schema: the tool does not run, the model is told
ModelToolCallBadArgs ==
    /\ pc = "run"
    /\ turn < max_turns
    /\ AgentTools(current_agent) # {}
    /\ turn' = turn + 1
    /\ UNCHANGED <<pc, qi, current_agent, handoffLog, toolLog, unresolved, error, output,
                   producer, printed, toolVars>>

ModelFinalOutput ==
    /\ pc = "run"
    /\ turn < max_turns
    /\ \E o \in OutputsOf(AgentOutputType(current_agent)) : output' = o
    /\ producer' = current_agent
    /\ turn' = turn + 1
    /\ pc' = "classify"
    /\ UNCHANGED <<qi, current_agent, handoffLog, toolLog, unresolved, error, printed, toolVars>>

\* the final output does not validate against output_type
ModelInvalidOutput ==
    /\ pc = "run"
    /\ turn < max_turns
    /\ AgentOutputType(current_agent) # "str"
    /\ error' = "ModelBehaviorError"
    /\ pc' = "raised"
    /\ turn' = turn + 1
    /\ UNCHANGED <<qi, current_agent, handoffLog, toolLog, unresolved, output, producer,
                   printed, toolVars>>

BackendTimeout ==
    /\ pc = "run"
    /\ turn < max_turns
    /\ error' = "APITimeoutError"
    /\ pc' = "raised"
    /\ turn' = turn + 1
    /\ UNCHANGED <<qi, current_agent, handoffLog, toolLog, unresolved, output, producer,
                   printed, toolVars>>

MaxTurnsExceeded ==
    /\ pc = "run"
    /\ turn = max_turns
    /\ error' = "MaxTurnsExceeded"
    /\ pc' = "raised"
    /\ UNCHANGED <<qi, current_agent, turn, handoffLog, toolLog, unresolved, output, producer,
                   printed, toolVars>>

\* lines 193-220: print the branch the output falls in, go on to the next query
Classify ==
    /\ pc = "classify"
    /\ printed' = Append(printed, [agent |-> producer, branch |-> Branch(output)])
    /\ qi' = qi + 1
    /\ pc' = "idle"
    /\ UNCHANGED <<current_agent, turn, handoffLog, toolLog, unresolved, error, output,
                   producer, toolVars>>

\* the for loop is exhausted
Finish ==
    /\ pc = "idle"
    /\ qi > Len(queries)
    /\ pc' = "exit"
    /\ UNCHANGED <<qi, current_agent, turn, handoffLog, toolLog, unresolved, error, output,
                   producer, printed, toolVars>>

\* main() has no try: an exception out of Runner.run ends the loop and the process,
\* so "raised" has no successor
SessionStart ==
    /\ TablesInit
    /\ user_skills = <<>>
    /\ target_job = <<>>
    /\ location = None
    /\ SessionInit

SessionNext ==
    \/ StartQuery
    \/ ModelHandoff
    \/ ModelUnknownHandoff
    \/ ModelToolCall
    \/ ModelToolCallBadArgs
    \/ ModelFinalOutput
    \/ ModelInvalidOutput
    \/ BackendTimeout
    \/ MaxTurnsExceeded
    \/ Classify
    \/ Finish

SessionSpec == SessionStart /\ [][SessionNext]_vars

-----------------------------------------------------------------------------
(* Properties of the tools (specification Spec) *)

\* two characters that are the same letter, whatever their case
SameLetter(c, d) ==
    c = d \/ \E k \in DOMAIN UpperCase : {c, d} = {UpperCase[k], LowerCase[k]}

EqualIgnoringCase(a, b) ==
    Len(a) = Len(b) /\ \A i \in DOMAIN a : SameLetter(a[i], b[i])

ContainsIgnoringCase(whole, part) ==
    \E off \in 0..(Len(whole) - Len(part)) :
        \A k \in DOMAIN part : SameLetter(part[k], whole[off + k])

\* the role whose name is target_job, if any
KnownRoles == {key \in DOMAIN JOB_SKILLS_0 : EqualIgnoringCase(key, target_job)}

\* positions of x in list
Positions(x, list) == {i \in DOMAIN list : list[i] = x}

\* list's elements at the positions idx, in the order of list
Pick(list, idx) ==
    [k \in 1..Cardinality(idx) |->
        list[CHOOSE i \in idx : Cardinality({j \in idx : j <= i}) = k]]

\* C1: for a known role, missing_skills is the role's required skills without those the
\* caller has, in the required order, and it is empty exactly when the caller has them all.
C1_MissingIsOrderedDifference ==
    (last = "get_missing_skills" /\ KnownRoles # {}) =>
        \A key \in KnownRoles :
            LET required == JOB_SKILLS_0[key]
                lacking  == {i \in DOMAIN required : required[i] \notin Range(user_skills)}
            IN /\ "missing_skills" \in DOMAIN ret
               /\ ret.missing_skills = Pick(required, lacking)
               /\ (ret.missing_skills = <<>>) <=> (Range(required) \subseteq Range(user_skills))

\* a known role, some but not all of its skills held: a strict, non-empty part comes back
C1_Witness ==
    /\ last = "get_missing_skills"
    /\ KnownRoles # {}
    /\ "missing_skills" \in DOMAIN ret
    /\ Len(ret.missing_skills) = 2
    /\ Len(user_skills) > 3

\* C2 as stated: a listing is returned exactly when the caller has all its skills,
\* whatever else the call was given.
C2_ReturnedIffSkillsHeld ==
    last = "find_jobs" =>
        \A i \in DOMAIN JOB_LISTINGS_0 :
            In(JOB_LISTINGS_0[i], ret)
                <=> (Range(JOB_LISTINGS_0[i].skills) \subseteq Range(user_skills))

\* C2: with no location (None or empty) a listing is returned exactly when the caller has
\* all its skills; with a location, only when the caller has them; and for the same
\* location, one more skill in the caller's list removes no returned listing.
C2_SkillsDecideAndMonotone ==
    last = "find_jobs" =>
        /\ \A i \in DOMAIN JOB_LISTINGS_0 :
              LET job  == JOB_LISTINGS_0[i]
                  held == Range(job.skills) \subseteq Range(user_skills)
              IN /\ In(job, ret) => held
                 /\ (location.isNone \/ location.val = <<>>) => (held => In(job, ret))
        /\ \A s \in SkillUniverse :
              \A i \in DOMAIN ret :
                  In(ret[i], find_jobs(JOB_LISTINGS, Append(user_skills, s), location).ret)

\* no location, more skills than the matched listing asks for
C2_Witness ==
    /\ last = "find_jobs"
    /\ location.isNone
    /\ Len(ret) = 1
    /\ Len(user_skills) > Len(ret[1].skills)

\* C3: an entry per requested skill the catalog has, none for the others, in input order,
\* each carrying the catalog's courses.
C3_EntriesAreCatalogSkillsInOrder ==
    last = "recommend_courses" =>
        LET offered == {i \in DOMAIN user_skills : user_skills[i] \in DOMAIN COURSES_0}
        IN /\ [k \in DOMAIN ret |-> ret[k].skill] = Pick(user_skills, offered)
           /\ \A k \in DOMAIN ret : ret[k].courses = COURSES_0[ret[k].skill]
           /\ \A s \in Range(user_skills) :
                 (\E k \in DOMAIN ret : ret[k].skill = s) <=> (s \in DOMAIN COURSES_0)

\* a request mixing skills with and without courses
C3_Witness ==
    /\ last = "recommend_courses"
    /\ Len(ret) >= 2
    /\ \E i \in DOMAIN user_skills : i < Len(user_skills) /\ user_skills[i] \notin DOMAIN COURSES_0

\* C4: given a location, exactly the skill-matching listings whose location contains it,
\* ignoring case; given none, every skill-matching listing; always in catalog order.
C4_LocationFilter ==
    last = "find_jobs" =>
        /\ \A i \in DOMAIN JOB_LISTINGS_0 :
              LET job == JOB_LISTINGS_0[i] IN
              In(job, ret) <=>
                  /\ Range(job.skills) \subseteq Range(user_skills)
                  /\ ~location.isNone => ContainsIgnoringCase(job.location, location.val)
        /\ \A a, b \in DOMAIN ret :
              a < b => \E i, j \in DOMAIN JOB_LISTINGS_0 :
                          i < j /\ JOB_LISTINGS_0[i] = ret[a] /\ JOB_LISTINGS_0[j] = ret[b]

\* a location written in another case keeps one of two skill-matching listings
C4_Witness ==
    /\ last = "find_jobs"
    /\ ~location.isNone
    /\ Len(ret) = 1
    /\ ~StrIn(location.val, ret[1].location)
    /\ Cardinality({i \in DOMAIN JOB_LISTINGS_0 :
                       Range(JOB_LISTINGS_0[i].skills) \subseteq Range(user_skills)}) = 2

\* C9: no call changes the three tables or the caller's arguments.
C9_ToolsLeaveTablesAndArguments ==
    [][UNCHANGED <<JOB_SKILLS, JOB_LISTINGS, COURSES, user_skills, target_job, location>>]_vars

\* a call returned listings of the table, and the table is as it was written
C9_Witness ==
    /\ last = "find_jobs"
    /\ Len(ret) = 2
    /\ JOB_LISTINGS = JOB_LISTINGS_0
    /\ JOB_SKILLS = JOB_SKILLS_0
    /\ COURSES = COURSES_0

-----------------------------------------------------------------------------
(* Properties of a session (specification SessionSpec) *)

\* C5: within one query at most one handoff is taken, from the controller to a
\* specialist, and none once a specialist holds the conversation.
C5_AtMostOneHandoff ==
    /\ Len(handoffLog) <= 1
    /\ \A i \in DOMAIN handoffLog :
          handoffLog[i][1] = Controller /\ handoffLog[i][2] \in Specialists
    /\ (pc \in {"run", "classify"} /\ handoffLog # <<>>) => current_agent = handoffLog[1][2]

\* a specialist was engaged, used its tool and produced the query's result
C5_Witness ==
    /\ pc = "classify"
    /\ Len(handoffLog) = 1
    /\ toolLog # <<>>
    /\ producer \in Specialists

\* C6: a handoff target outside the registered handlers is treated as no selection: the
\* query does not fail, and when it finishes it is printed as free text.
C6_UnresolvedHandoffIsUnhandled ==
    unresolved =>
        /\ pc # "raised"
        /\ error = "None"
        /\ \A i \in DOMAIN toolLog : toolLog[i] \in AgentTools(current_agent)

\* C7: an error of one query (a backend timeout, an output failing its schema, a run out
\* of turns) is reported as a failure of that query, told apart from free text and from a
\* result, and the loop goes on to the next query.
C7_ErrorRecoveredPerQuery ==
    (error # "None" /\ ~unresolved) =>
        /\ pc # "raised"
        /\ Len(printed) >= 1
        /\ printed[Len(printed)].branch = "FAILED"

\* the variant each agent's output_type stands for
VariantOf(agent) ==
    CASE agent = "Skill Gap Specialist"          -> "SKILL GAP ANALYSIS"
      [] agent = "Job Finder Specialist"         -> "JOB LISTINGS"
      [] agent = "Course Recommender Specialist" -> "COURSE RECOMMENDATIONS"
      [] OTHER                                   -> "print(output)"

\* C8: every finished query is handled as the variant of the agent that produced its
\* output, an empty list included.
C8_BranchIsProducersVariant ==
    \A i \in DOMAIN printed : printed[i].branch = VariantOf(printed[i].agent)

====
